---- MODULE Spec2Model ----
(***************************************************************************)
(* A model of the staccato statistics library (src/src/staccato/lib.rs):   *)
(* Statistics::from, its helpers slice_values, compute_median,             *)
(* compute_min_max_sum and compute_stddev, StatisticsBundle::from /        *)
(* StatisticsBundle::with_percentiles, get_values and StatisticsFormatter, *)
(* and of the st program (src/src/bin/st.rs).                              *)
(*                                                                         *)
(* f64 values are modelled as exact rationals n/d inside the finite range  *)
(* [-F64_MAX, F64_MAX]; a result outside that range overflows to an        *)
(* infinity, and the IEEE-754 rules for infinities and NaN are kept.       *)
(* Rounding inside the finite range is not modelled.                       *)
(***************************************************************************)
EXTENDS Integers, Sequences, FiniteSets

VARIABLES vals, percentile, percentiles, pc, stats, bundle, panicked,
          input, sorting, matches, sep, output

\* The text read, the sorting policy, the command line, the separator and
\* the text written: the state of get_values, the formatter and st.
env == <<input, sorting, matches, sep, output>>

vars == <<vals, percentile, percentiles, pc, stats, bundle, panicked,
          input, sorting, matches, sep, output>>

(***************************************************************************)
(* Bounds of the model.                                                    *)
(***************************************************************************)
MaxLen == 4
MaxPercentiles == 2
MaxLines == 3

(***************************************************************************)
(* Option<T>: None is the empty sequence, Some(x) the one-element one, so  *)
(* that flat_map over Options is concatenation.                            *)
(***************************************************************************)
None == <<>>
Some(x) == <<x>>

(***************************************************************************)
(* f64                                                                     *)
(***************************************************************************)
F64_MAX == 1000

RECURSIVE GCD(_, _)
GCD(a, b) == IF b = 0 THEN a ELSE GCD(b, a % b)

Abs(n) == IF n < 0 THEN 0 - n ELSE n

NaN == [k |-> "nan", n |-> 0, d |-> 0]
PosInf == [k |-> "inf", n |-> 1, d |-> 0]
NegInf == [k |-> "inf", n |-> 0 - 1, d |-> 0]

\* The exact rational n/d (d > 0) in lowest terms, with no range check.
Exact(n, d) ==
    LET g == GCD(Abs(n), d)
    IN  [k |-> "fin", n |-> n \div g, d |-> d \div g]

\* The f64 result of an operation whose exact value is n/d (d > 0):
\* beyond the finite range it overflows to an infinity.
Finite(n, d) ==
    IF n > F64_MAX * d THEN PosInf
    ELSE IF (0 - n) > F64_MAX * d THEN NegInf
    ELSE Exact(n, d)

F64_MIN == Exact(0 - F64_MAX, 1)
Zero == Exact(0, 1)

\* `count as f64`
AsF64(c) == Exact(c, 1)

FNeg(a) ==
    IF a.k = "fin" THEN Exact(0 - a.n, a.d)
    ELSE IF a.k = "inf" THEN [a EXCEPT !.n = 0 - a.n]
    ELSE NaN

FAdd(a, b) ==
    IF a.k = "nan" \/ b.k = "nan" THEN NaN
    ELSE IF a.k = "inf" /\ b.k = "inf" THEN (IF a.n = b.n THEN a ELSE NaN)
    ELSE IF a.k = "inf" THEN a
    ELSE IF b.k = "inf" THEN b
    ELSE Finite(a.n * b.d + b.n * a.d, a.d * b.d)

FSub(a, b) == FAdd(a, FNeg(b))

\* a / b for a finite b >= 0 (the code divides by a count and by 2 only).
FDiv(a, b) ==
    IF a.k = "nan" THEN NaN
    ELSE IF a.k = "inf" THEN a
    ELSE IF b.n = 0 THEN (IF a.n = 0 THEN NaN ELSE IF a.n > 0 THEN PosInf ELSE NegInf)
    ELSE Finite(a.n * b.d, a.d * b.n)

\* a.powi(2)
FPowi2(a) ==
    IF a.k = "nan" THEN NaN
    ELSE IF a.k = "inf" THEN PosInf
    ELSE IF a.n * a.n > F64_MAX * a.d * a.d THEN PosInf
    ELSE Exact(a.n * a.n, a.d * a.d)

\* a < b and a > b; every comparison with NaN is false.
FLt(a, b) ==
    IF a.k = "nan" \/ b.k = "nan" THEN FALSE
    ELSE IF a.k = "inf" /\ b.k = "inf" THEN a.n < b.n
    ELSE IF a.k = "inf" THEN a.n < 0
    ELSE IF b.k = "inf" THEN b.n > 0
    ELSE a.n * b.d < b.n * a.d

FGt(a, b) == FLt(b, a)

FLe(a, b) == FLt(a, b) \/ (a.k # "nan" /\ a = b)

RECURSIVE ISqrtSearch(_, _, _)
\* The greatest r in lo..hi with r * r <= n (lo * lo <= n is given).
ISqrtSearch(n, lo, hi) ==
    IF lo >= hi THEN lo
    ELSE LET mid == (lo + hi + 1) \div 2
         IN  IF mid * mid <= n THEN ISqrtSearch(n, mid, hi)
             ELSE ISqrtSearch(n, lo, mid - 1)

ISqrt(n) == ISqrtSearch(n, 0, IF n < 2 THEN n ELSE (n \div 2) + 1)

IsSquare(n) == ISqrt(n) * ISqrt(n) = n

\* a.sqrt(): NaN below zero; a rational root when there is one; otherwise
\* the irrational root of n/d, kept symbolically as [k |-> "sqrt"].
FSqrt(a) ==
    IF a.k = "nan" THEN NaN
    ELSE IF a.k = "inf" THEN (IF a.n > 0 THEN PosInf ELSE NaN)
    ELSE IF a.n < 0 THEN NaN
    ELSE IF IsSquare(a.n) /\ IsSquare(a.d) THEN Exact(ISqrt(a.n), ISqrt(a.d))
    ELSE [k |-> "sqrt", n |-> a.n, d |-> a.d]

(***************************************************************************)
(* Inputs                                                                  *)
(***************************************************************************)
\* The finite f64 values the series are drawn from; the extremes of the
\* range are among them.
Values == {F64_MIN, Exact(1, 1), Exact(3, 1), Exact(F64_MAX, 1)}

RECURSIVE SeqsUpTo(_, _)
SeqsUpTo(S, n) ==
    IF n = 0 THEN {<<>>}
    ELSE LET shorter == SeqsUpTo(S, n - 1)
         IN  shorter \cup {Append(s, x) : s \in {t \in shorter : Len(t) = n - 1}, x \in S}

Series == SeqsUpTo(Values, MaxLen)

\* A PercentileSpec is an integer of [1, 99].
PercentileSpec == 1..99

\* The percentiles the requested lists are drawn from.
PercentileChoices == {1, 25, 50, 99}

PercentileLists == SeqsUpTo(PercentileChoices, MaxPercentiles)

(***************************************************************************)
(* Statistics                                                              *)
(***************************************************************************)
\* let index = (percentile as usize * num_vals) / 100;
\* (the product cannot wrap a 64-bit usize for any series that fits in memory)
slice_index_ceil(v, p) == (p * Len(v) + 99) \div 100

slice_index(v, p) == (p * Len(v)) \div 100

\* &vals[0..index] panics when index is beyond the end of vals.
slice_panics(v, p) == slice_index(v, p) > Len(v)

slice_values_tail(v, p) ==
    IF slice_panics(v, p) THEN <<>>
    ELSE SubSeq(v, Len(v) - slice_index(v, p) + 1, Len(v))

slice_values(v, p) ==
    IF slice_panics(v, p) THEN <<>> ELSE SubSeq(v, 1, slice_index(v, p))

\* vals[i] of the code is v[i + 1] here: the code's indices start at 0.
compute_median(v) ==
    LET len == Len(v)
        is_odd == len % 2 = 1
    IN  IF is_odd
        THEN v[(len \div 2) + 1]
        ELSE LET upper_med == len \div 2
                 lower_med == upper_med - 1
             IN  FDiv(FAdd(v[upper_med + 1], v[lower_med + 1]), AsF64(2))

\* One round of the loop of compute_min_max_sum; acc is (lower, upper, sum).
min_max_sum_step_else_if(acc, val) ==
    [upper |-> IF FGt(val, acc.upper) THEN val ELSE acc.upper,
     lower |-> IF ~FGt(val, acc.upper) /\ FLt(val, acc.lower) THEN val ELSE acc.lower,
     sum   |-> FAdd(acc.sum, val)]

min_max_sum_step_sum_in_branch(acc, val) ==
    [upper |-> IF FGt(val, acc.upper) THEN val ELSE acc.upper,
     lower |-> IF FLt(val, acc.lower) THEN val ELSE acc.lower,
     sum   |-> IF FLt(val, acc.lower) THEN FAdd(acc.sum, val) ELSE acc.sum]

min_max_sum_step(acc, val) ==
    [upper |-> IF FGt(val, acc.upper) THEN val ELSE acc.upper,
     lower |-> IF FLt(val, acc.lower) THEN val ELSE acc.lower,
     sum   |-> FAdd(acc.sum, val)]

RECURSIVE min_max_sum_loop(_, _, _)
min_max_sum_loop(v, i, acc) ==
    IF i > Len(v) THEN acc
    ELSE min_max_sum_loop(v, i + 1, min_max_sum_step(acc, v[i]))

compute_min_max_sum(v) ==
    min_max_sum_loop(v, 1, [upper |-> F64_MIN, lower |-> Exact(F64_MAX, 1), sum |-> Zero])

RECURSIVE sum_deviance_fold(_, _, _, _)
\* vals.iter().fold(0f64, |sum, &x| sum + (x - mean).powi(2))
sum_deviance_fold(v, i, mean, sum) ==
    IF i > Len(v) THEN sum
    ELSE sum_deviance_fold(v, i + 1, mean, FAdd(sum, FPowi2(FSub(v[i], mean))))

compute_stddev_sample(v, mean) ==
    LET num == AsF64(Len(v) - 1)
        sum_deviance == sum_deviance_fold(v, 1, mean, Zero)
        deviance == FDiv(sum_deviance, num)
    IN  FSqrt(deviance)

compute_stddev(v, mean) ==
    LET num == AsF64(Len(v))
        sum_deviance == sum_deviance_fold(v, 1, mean, Zero)
        deviance == FDiv(sum_deviance, num)
    IN  FSqrt(deviance)

\* The Statistics value built at the end of Statistics::from.
new_statistics(filtered, p) ==
    LET count == Len(filtered)
        mms == compute_min_max_sum(filtered)
        mean == FDiv(mms.sum, AsF64(count))
        median == compute_median(filtered)
        stddev == compute_stddev(filtered, mean)
    IN  [percentile |-> p,
         count |-> count,
         sum |-> mms.sum,
         mean |-> mean,
         upper |-> mms.upper,
         lower |-> mms.lower,
         median |-> median,
         stddev |-> stddev]

zeroed_statistics(p) ==
    [percentile |-> p, count |-> 0, sum |-> Zero, mean |-> Zero, upper |-> Zero,
     lower |-> Zero, median |-> Zero, stddev |-> Zero]

Statistics_from_zeroed(v, p) ==
    LET filtered == IF p # None THEN slice_values(v, p[1]) ELSE v
    IN  IF Len(filtered) = 0 THEN Some(zeroed_statistics(p))
        ELSE Some(new_statistics(filtered, p))

Statistics_from(v, p) ==
    LET filtered == IF p # None THEN slice_values(v, p[1]) ELSE v
        count == Len(filtered)
    IN  IF count = 0 THEN None
        ELSE Some(new_statistics(filtered, p))

Statistics_from_panics(v, p) == p # None /\ slice_panics(v, p[1])

(***************************************************************************)
(* StatisticsBundle                                                        *)
(***************************************************************************)
RECURSIVE percentile_stats_reversed(_, _)
percentile_stats_reversed(v, ps) ==
    IF ps = <<>> THEN <<>>
    ELSE percentile_stats_reversed(v, Tail(ps)) \o Statistics_from(v, Some(Head(ps)))

RECURSIVE percentile_stats(_, _)
\* percentiles.iter().flat_map(|&p| Statistics::from(vals, Some(p))).collect()
percentile_stats(v, ps) ==
    IF ps = <<>> THEN <<>>
    ELSE Statistics_from(v, Some(Head(ps))) \o percentile_stats(v, Tail(ps))

with_percentiles_global_of_last(v, ps) ==
    IF Len(v) = 0 THEN None
    ELSE LET global == Statistics_from(v, IF ps = <<>> THEN None ELSE Some(ps[Len(ps)]))
         IN  IF global = None THEN None
             ELSE Some([global |-> global[1], percentiles |-> percentile_stats(v, ps)])

with_percentiles(v, ps) ==
    IF Len(v) = 0 THEN None
    ELSE LET global == Statistics_from(v, None)
         IN  IF global = None THEN None
             ELSE Some([global |-> global[1], percentiles |-> percentile_stats(v, ps)])

with_percentiles_panics(v, ps) ==
    Len(v) # 0 /\ \E i \in 1..Len(ps) : Statistics_from_panics(v, Some(ps[i]))

StatisticsBundle_from(v) == with_percentiles(v, <<>>)

(***************************************************************************)
(* get_values                                                              *)
(*                                                                         *)
(* A str is a sequence of one-character strings.                           *)
(***************************************************************************)
DigitChars == <<"0", "1", "2", "3", "4", "5", "6", "7", "8", "9">>

IsDigit(c) == \E i \in 1..Len(DigitChars) : DigitChars[i] = c

DigitVal(c) == (CHOOSE i \in 1..Len(DigitChars) : DigitChars[i] = c) - 1

RECURSIVE DecVal(_)
\* The number a sequence of decimal digits denotes.
DecVal(ds) ==
    IF ds = <<>> THEN 0
    ELSE DecVal(SubSeq(ds, 1, Len(ds) - 1)) * 10 + DigitVal(ds[Len(ds)])

RECURSIVE Pow10(_)
Pow10(k) == IF k = 0 THEN 1 ELSE 10 * Pow10(k - 1)

\* The index of the first "." of s, or Len(s) + 1.
PointAt(s) ==
    IF \E i \in 1..Len(s) : s[i] = "."
    THEN CHOOSE i \in 1..Len(s) : s[i] = "." /\ \A j \in 1..(i - 1) : s[j] # "."
    ELSE Len(s) + 1

\* digits [ "." digits ] with at least one digit
IsDecimal(s) ==
    LET int == SubSeq(s, 1, PointAt(s) - 1)
        frac == SubSeq(s, PointAt(s) + 1, Len(s))
    IN  /\ \A i \in 1..Len(int) : IsDigit(int[i])
        /\ \A i \in 1..Len(frac) : IsDigit(frac[i])
        /\ Len(int) + Len(frac) >= 1

\* str::parse::<f64>().ok(): an optional sign, then "inf", "NaN" or a decimal
\* number; nothing else, and no surrounding whitespace, is accepted. A
\* decimal beyond the finite range is read as an infinity.
parse_f64(line) ==
    LET signed == line # <<>> /\ line[1] \in {"-", "+"}
        negative == line # <<>> /\ line[1] = "-"
        body == IF signed THEN Tail(line) ELSE line
        int == SubSeq(body, 1, PointAt(body) - 1)
        frac == SubSeq(body, PointAt(body) + 1, Len(body))
        magnitude ==
            IF body = <<"i", "n", "f">> THEN PosInf
            ELSE IF body = <<"N", "a", "N">> THEN NaN
            ELSE Finite(DecVal(int \o frac), Pow10(Len(frac)))
    IN  IF body = <<"i", "n", "f">> \/ body = <<"N", "a", "N">> \/ IsDecimal(body)
        THEN Some(IF negative THEN FNeg(magnitude) ELSE magnitude)
        ELSE None

RECURSIVE filter_map_parse(_)
\* buf.lines().filter_map(|v| v.parse::<f64>().ok()).collect()
filter_map_parse(lines) ==
    IF lines = <<>> THEN <<>>
    ELSE parse_f64(Head(lines)) \o filter_map_parse(Tail(lines))

\* |a, b| a.partial_cmp(b).unwrap_or(Ordering::Less) == Ordering::Less
is_less(a, b) ==
    IF a.k = "nan" \/ b.k = "nan" THEN TRUE
    ELSE FLt(a, b)

RECURSIVE insert_head(_, _)
\* x put in front of the sorted s and moved right past every element that
\* is less than it.
insert_head(x, s) ==
    IF s = <<>> \/ ~is_less(s[1], x) THEN <<x>> \o s
    ELSE <<s[1]>> \o insert_head(x, Tail(s))

RECURSIVE sort_by(_)
\* values.sort_by(..): the stable sort of the standard library, which for a
\* short slice inserts each element, from the last to the first, into the
\* sorted tail behind it.
sort_by(v) ==
    IF Len(v) <= 1 THEN v
    ELSE insert_head(v[1], sort_by(Tail(v)))

\* The Ok value of get_values for the lines of a readable input.
get_values(lines, sort) ==
    LET values == filter_map_parse(lines)
    IN  IF sort = "Sorted" THEN sort_by(values) ELSE values

\* The lines the inputs are made of.
InputLines ==
    { <<"3">>, <<"1">>, <<"1", ".", "5">>, <<"-", "1">>,
      <<" ", "1">>, <<"3", " ">>, <<"x">>, <<>>,
      <<"N", "a", "N">>, <<"i", "n", "f">> }

Inputs == SeqsUpTo(InputLines, MaxLines)

EnvIdle ==
    /\ input = <<>>
    /\ sorting = "Unsorted"
    /\ matches = None
    /\ sep = None
    /\ output = <<>>

LibIdle ==
    /\ percentile = None
    /\ percentiles = <<>>
    /\ stats = None
    /\ bundle = None
    /\ panicked = FALSE

(***************************************************************************)
(* StatisticsFormatter                                                     *)
(*                                                                         *)
(* A line of the output is a record: its key and separator are strs, its   *)
(* value is the text of a number: a sign, the digits before the point and  *)
(* the digits after it (none, and no point, when frac is empty).           *)
(***************************************************************************)
DISPLAY_PRECISION == 5

RECURSIVE ToDigits(_)
\* The decimal digits of a natural number, as Display writes them.
ToDigits(n) ==
    IF n < 10 THEN <<DigitChars[n + 1]>>
    ELSE ToDigits(n \div 10) \o <<DigitChars[(n % 10) + 1]>>

RECURSIVE PadDigits(_, _)
\* The last k decimal digits of n, with leading zeros.
PadDigits(n, k) ==
    IF k = 0 THEN <<>>
    ELSE PadDigits(n \div 10, k - 1) \o <<DigitChars[(n % 10) + 1]>>

RECURSIVE Scale(_, _, _, _)
\* Long division: (q + r/d) * 10^k as a whole number and a remainder.
Scale(q, r, d, k) ==
    IF k = 0 THEN <<q, r>>
    ELSE Scale(q * 10 + (r * 10) \div d, (r * 10) % d, d, k - 1)

\* format!("{:.*}", prec, x) for an f64: prec digits after the point, the
\* last one rounded half to even; "inf" and "NaN" take no digits. The digits
\* of an irrational root are not computed: digit i of one is [root, place].
fmt_f64(x, prec) ==
    IF x.k = "nan" THEN [kind |-> "NaN", neg |-> FALSE, int |-> <<>>, frac |-> <<>>]
    ELSE IF x.k = "inf" THEN [kind |-> "inf", neg |-> x.n < 0, int |-> <<>>, frac |-> <<>>]
    ELSE IF x.k = "sqrt"
    THEN [kind |-> "decimal", neg |-> FALSE, int |-> ToDigits(ISqrt(x.n \div x.d)),
          frac |-> [i \in 1..prec |-> [root |-> <<x.n, x.d>>, place |-> i]]]
    ELSE LET m == Abs(x.n)
             qr == Scale(m \div x.d, m % x.d, x.d, prec)
             up == 2 * qr[2] > x.d \/ (2 * qr[2] = x.d /\ qr[1] % 2 = 1)
             scaled == IF up THEN qr[1] + 1 ELSE qr[1]
         IN  [kind |-> "decimal", neg |-> x.n < 0,
              int |-> ToDigits(scaled \div Pow10(prec)),
              frac |-> PadDigits(scaled % Pow10(prec), prec)]

\* format!("{:.*}", prec, n) for a usize: the precision is ignored for an
\* integer type.
fmt_usize(n, prec) ==
    [kind |-> "integer", neg |-> FALSE, int |-> ToDigits(n), frac |-> <<>>]

\* KeyValueSep::get_sep
get_sep(separator) ==
    IF separator.kind = "Tab" THEN <<"\t">>
    ELSE IF separator.kind = "Colon" THEN <<":", " ">>
    ELSE separator.s

\* writeln!(buf, "{name}_{p}{sep}{value}") or writeln!(buf, "{name}{sep}{value}")
writeln(name, p, separator, value) ==
    [key |-> IF p # None THEN name \o <<"_">> \o ToDigits(p[1]) ELSE name,
     sep |-> get_sep(separator),
     value |-> value,
     newline |-> TRUE]

write_to_buf_lower_first(st, separator) ==
    LET p == st.percentile
    IN  << writeln(<<"c", "o", "u", "n", "t">>, p, separator, fmt_usize(st.count, DISPLAY_PRECISION)),
           writeln(<<"s", "u", "m">>, p, separator, fmt_f64(st.sum, DISPLAY_PRECISION)),
           writeln(<<"m", "e", "a", "n">>, p, separator, fmt_f64(st.mean, DISPLAY_PRECISION)),
           writeln(<<"l", "o", "w", "e", "r">>, p, separator, fmt_f64(st.lower, DISPLAY_PRECISION)),
           writeln(<<"u", "p", "p", "e", "r">>, p, separator, fmt_f64(st.upper, DISPLAY_PRECISION)),
           writeln(<<"m", "e", "d", "i", "a", "n">>, p, separator, fmt_f64(st.median, DISPLAY_PRECISION)),
           writeln(<<"s", "t", "d", "d", "e", "v">>, p, separator, fmt_f64(st.stddev, DISPLAY_PRECISION)) >>

\* StatisticsFormatter::write_to_buf: both branches write the same seven
\* lines, with and without the percentile in the key.
write_to_buf(st, separator) ==
    LET p == st.percentile
    IN  << writeln(<<"c", "o", "u", "n", "t">>, p, separator, fmt_usize(st.count, DISPLAY_PRECISION)),
           writeln(<<"s", "u", "m">>, p, separator, fmt_f64(st.sum, DISPLAY_PRECISION)),
           writeln(<<"m", "e", "a", "n">>, p, separator, fmt_f64(st.mean, DISPLAY_PRECISION)),
           writeln(<<"u", "p", "p", "e", "r">>, p, separator, fmt_f64(st.upper, DISPLAY_PRECISION)),
           writeln(<<"l", "o", "w", "e", "r">>, p, separator, fmt_f64(st.lower, DISPLAY_PRECISION)),
           writeln(<<"m", "e", "d", "i", "a", "n">>, p, separator, fmt_f64(st.median, DISPLAY_PRECISION)),
           writeln(<<"s", "t", "d", "d", "e", "v">>, p, separator, fmt_f64(st.stddev, DISPLAY_PRECISION)) >>

RECURSIVE write_each(_, _)
\* for stats in self.bundle.percentile_stats() { write_to_buf(..) }
write_each(sts, separator) ==
    IF sts = <<>> THEN <<>>
    ELSE write_to_buf(Head(sts), separator) \o write_each(Tail(sts), separator)

\* <StatisticsFormatter as Display>::fmt: the text written for a bundle.
StatisticsFormatter_fmt(b, separator) ==
    write_to_buf(b.global, separator) \o write_each(b.percentiles, separator)

(***************************************************************************)
(* st: the command line (src/src/bin/st.rs)                                *)
(***************************************************************************)
RECURSIVE split(_, _)
\* v.split(','): the pieces of v between the separators, empty ones included.
split(v, c) ==
    IF \E i \in 1..Len(v) : v[i] = c
    THEN LET at == CHOOSE i \in 1..Len(v) : v[i] = c /\ \A j \in 1..(i - 1) : v[j] # c
         IN  <<SubSeq(v, 1, at - 1)>> \o split(SubSeq(v, at + 1, Len(v)), c)
    ELSE <<v>>

U8_MAX == 255

\* str::parse::<u8>(): an optional "+", then one or more decimal digits
\* denoting a number of at most 255.
parse_u8(tok) ==
    LET digits == IF tok # <<>> /\ tok[1] = "+" THEN Tail(tok) ELSE tok
    IN  IF /\ digits # <<>>
           /\ \A i \in 1..Len(digits) : IsDigit(digits[i])
           /\ DecVal(digits) <= U8_MAX
        THEN Some(DecVal(digits))
        ELSE None

validate_percents_inclusive(v) ==
    IF \A i \in 1..Len(split(v, ",")) :
           LET r == parse_u8(split(v, ",")[i])
           IN  r # None /\ r[1] >= 0 /\ r[1] <= 100
    THEN "Ok" ELSE "Err"

validate_percents(v) ==
    IF \A i \in 1..Len(split(v, ",")) :
           LET r == parse_u8(split(v, ",")[i])
           IN  r # None /\ r[1] > 0 /\ r[1] < 100
    THEN "Ok" ELSE "Err"

DEFAULT_PERCENTILES == <<>>

RECURSIVE flat_map_parse_u8(_)
\* p.split(',').flat_map(|v| v.parse::<u8>()).filter(|&v| v >= 1 && v <= 99)
flat_map_parse_u8(toks) ==
    IF toks = <<>> THEN <<>>
    ELSE LET r == parse_u8(Head(toks))
         IN  (IF r # None /\ r[1] >= 1 /\ r[1] <= 99 THEN r ELSE <<>>)
             \o flat_map_parse_u8(Tail(toks))

parse_percents(m) ==
    IF m.percentiles # None
    THEN flat_map_parse_u8(split(m.percentiles[1], ","))
    ELSE DEFAULT_PERCENTILES

\* KeyValueSep::from_str
KeyValueSep_from_str(str) ==
    IF str = <<"t", "a", "b">> THEN [kind |-> "Tab", s |-> <<>>]
    ELSE IF str = <<"c", "o", "l", "o", "n">> THEN [kind |-> "Colon", s |-> <<>>]
    ELSE [kind |-> "Other", s |-> str]

DEFAULT_SEPARATOR == [kind |-> "Colon", s |-> <<>>]

parse_separator(m) ==
    IF m.separator # None THEN KeyValueSep_from_str(m.separator[1])
    ELSE DEFAULT_SEPARATOR

RECURSIVE Join(_, _)
\* The strings of toks with c between them.
Join(toks, c) ==
    IF Len(toks) = 1 THEN toks[1]
    ELSE toks[1] \o <<c>> \o Join(Tail(toks), c)

\* The pieces the -p option values are made of.
PercentTokens ==
    { <<"1">>, <<"9", "9">>, <<"+", "5">>,
      <<"0">>, <<"1", "0", "0">>, <<"2", "5", "7">>, <<"x">>, <<>> }

PercentTokenLists == SeqsUpTo(PercentTokens, MaxPercentiles) \ {<<>>}

\* The values of -p: absent, or a comma separated list.
PercentArgs == {None} \cup {Some(Join(t, ",")) : t \in PercentTokenLists}

SeparatorArgs == {None, Some(<<"t", "a", "b">>), Some(<<"=">>)}

\* The lines of the input of st.
StInputLines == { <<"3">>, <<"1">> }

StInputs == SeqsUpTo(StInputLines, MaxLines)

(***************************************************************************)
(* The state machine of get_values: one input, then one call on it.        *)
(***************************************************************************)
InitGetValues ==
    /\ input \in Inputs
    /\ vals = <<>>
    /\ pc = "start"
    /\ sorting = "Unsorted"
    /\ matches = None
    /\ sep = None
    /\ output = <<>>
    /\ LibIdle

\* get_values(reader, sort) when the reader can be read to its end
GetValuesOk ==
    /\ pc = "start"
    /\ \E sort \in {"Sorted", "Unsorted"} :
        /\ sorting' = sort
        /\ vals' = get_values(input, sort)
    /\ pc' = "get_values Ok"
    /\ UNCHANGED <<percentile, percentiles, stats, bundle, panicked>>
    /\ UNCHANGED <<input, matches, sep, output>>

\* get_values(reader, sort) when reader.read_to_string fails: try! returns
\* the error and no values.
GetValuesErr ==
    /\ pc = "start"
    /\ \E sort \in {"Sorted", "Unsorted"} : sorting' = sort
    /\ pc' = "get_values Err"
    /\ UNCHANGED <<vals, percentile, percentiles, stats, bundle, panicked>>
    /\ UNCHANGED <<input, matches, sep, output>>

NextGetValues == GetValuesOk \/ GetValuesErr

SpecGetValues == InitGetValues /\ [][NextGetValues]_vars

(***************************************************************************)
(* The state machine: one series, then one call on it.                     *)
(***************************************************************************)
Init ==
    /\ vals \in Series
    /\ percentile = None
    /\ percentiles = <<>>
    /\ pc = "start"
    /\ stats = None
    /\ bundle = None
    /\ panicked = FALSE
    /\ EnvIdle

\* Statistics::from(vals, p)
CallStatisticsFrom ==
    /\ pc = "start"
    /\ \E p \in {None} \cup {Some(q) : q \in PercentileSpec} :
        /\ percentile' = p
        /\ panicked' = Statistics_from_panics(vals, p)
        /\ stats' = IF Statistics_from_panics(vals, p) THEN None
                    ELSE Statistics_from(vals, p)
    /\ pc' = "Statistics::from"
    /\ UNCHANGED <<vals, percentiles, bundle>>
    /\ UNCHANGED env

\* StatisticsBundle::with_percentiles(vals, ps)
CallWithPercentiles ==
    /\ pc = "start"
    /\ \E ps \in PercentileLists :
        /\ percentiles' = ps
        /\ panicked' = with_percentiles_panics(vals, ps)
        /\ bundle' = IF with_percentiles_panics(vals, ps) THEN None
                     ELSE with_percentiles(vals, ps)
    /\ pc' = "with_percentiles"
    /\ UNCHANGED <<vals, percentile, stats>>
    /\ UNCHANGED env

\* StatisticsBundle::from(vals)
CallBundleFrom ==
    /\ pc = "start"
    /\ bundle' = StatisticsBundle_from(vals)
    /\ pc' = "from"
    /\ UNCHANGED <<vals, percentile, percentiles, stats, panicked>>
    /\ UNCHANGED env

Next == CallStatisticsFrom \/ CallWithPercentiles \/ CallBundleFrom

Spec == Init /\ [][Next]_vars

(***************************************************************************)
(* The state machine of the formatter: one bundle, then one formatter      *)
(* built for it and written out.                                           *)
(***************************************************************************)
\* The values and separators the formatted bundles are made of.
FormatValues == {Exact(0 - 1, 1), Exact(F64_MAX, 1)}

FormatSeries == SeqsUpTo(FormatValues, MaxLen) \ {<<>>}

Separators ==
    { [kind |-> "Tab", s |-> <<>>],
      [kind |-> "Other", s |-> <<" ", "=", ">", " ">>],
      [kind |-> "Other", s |-> <<>>] }

InitFormat ==
    /\ vals \in FormatSeries
    /\ percentiles \in PercentileLists
    /\ bundle = with_percentiles(vals, percentiles)
    /\ pc = "start"
    /\ percentile = None
    /\ stats = None
    /\ panicked = FALSE
    /\ EnvIdle

\* format!("{}", StatisticsFormatter::new(&bundle))
FormatNew ==
    /\ pc = "start"
    /\ sep' = Some([kind |-> "Colon", s |-> <<>>])
    /\ output' = StatisticsFormatter_fmt(bundle[1], [kind |-> "Colon", s |-> <<>>])
    /\ pc' = "formatted"
    /\ UNCHANGED <<vals, percentile, percentiles, stats, bundle, panicked>>
    /\ UNCHANGED <<input, sorting, matches>>

\* format!("{}", StatisticsFormatter::with_sep(&bundle, separator))
FormatWithSep ==
    /\ pc = "start"
    /\ \E separator \in Separators :
        /\ sep' = Some(separator)
        /\ output' = StatisticsFormatter_fmt(bundle[1], separator)
    /\ pc' = "formatted"
    /\ UNCHANGED <<vals, percentile, percentiles, stats, bundle, panicked>>
    /\ UNCHANGED <<input, sorting, matches>>

NextFormat == FormatNew \/ FormatWithSep

SpecFormat == InitFormat /\ [][NextFormat]_vars

(***************************************************************************)
(* The state machine of st: main, from the parsed command line to the      *)
(* text printed.                                                           *)
(***************************************************************************)
InitSt ==
    /\ matches \in [percentiles : PercentArgs, separator : SeparatorArgs]
    /\ pc = "main"
    /\ vals = <<>>
    /\ input = <<>>
    /\ sorting = "Unsorted"
    /\ sep = None
    /\ output = <<>>
    /\ LibIdle

\* parse_cli_opts: clap runs validate_percents on the value of -p and ends
\* the program when it returns Err.
ParseCliOpts ==
    /\ pc = "main"
    /\ pc' = IF matches.percentiles # None /\ validate_percents(matches.percentiles[1]) = "Err"
             THEN "exit: invalid percentile"
             ELSE "opts"
    /\ UNCHANGED <<vals, percentile, percentiles, stats, bundle, panicked>>
    /\ UNCHANGED env

\* let percents = ..; let separator = ..; let sorting = ..;
ParseOptions ==
    /\ pc = "opts"
    /\ percentiles' = parse_percents(matches)
    /\ sep' = Some(parse_separator(matches))
    /\ sorting' = IF parse_percents(matches) # <<>> THEN "Sorted" ELSE "Unsorted"
    /\ pc' = "read"
    /\ UNCHANGED <<vals, percentile, stats, bundle, panicked>>
    /\ UNCHANGED <<input, matches, output>>

\* get_values(&mut BufReader::new(..), sorting) returns Ok
ReadValues ==
    /\ pc = "read"
    /\ \E text \in StInputs :
        /\ input' = text
        /\ vals' = get_values(text, sorting)
    /\ pc' = "values"
    /\ UNCHANGED <<percentile, percentiles, stats, bundle, panicked>>
    /\ UNCHANGED <<sorting, matches, sep, output>>

\* The file cannot be opened or get_values returns Err: process::exit(1)
ReadFails ==
    /\ pc = "read"
    /\ pc' = "exit: cannot read"
    /\ UNCHANGED <<vals, percentile, percentiles, stats, bundle, panicked>>
    /\ UNCHANGED env

\* let stats = StatisticsBundle::with_percentiles(&lines, &percents);
BuildBundle ==
    /\ pc = "values"
    /\ panicked' = with_percentiles_panics(vals, percentiles)
    /\ bundle' = IF with_percentiles_panics(vals, percentiles) THEN None
                 ELSE with_percentiles(vals, percentiles)
    /\ pc' = IF with_percentiles_panics(vals, percentiles) THEN "panic" ELSE "bundle"
    /\ UNCHANGED <<vals, percentile, percentiles, stats>>
    /\ UNCHANGED env

\* print!("{}", StatisticsFormatter::with_sep(&v, separator)), or the
\* warning that there are no values, which goes to stderr
PrintStats ==
    /\ pc = "bundle"
    /\ output' = IF bundle # None THEN StatisticsFormatter_fmt(bundle[1], sep[1]) ELSE <<>>
    /\ pc' = "done"
    /\ UNCHANGED <<vals, percentile, percentiles, stats, bundle, panicked>>
    /\ UNCHANGED <<input, sorting, matches, sep>>

NextSt ==
    ParseCliOpts \/ ParseOptions \/ ReadValues \/ ReadFails \/ BuildBundle \/ PrintStats

SpecSt == InitSt /\ [][NextSt]_vars

(***************************************************************************)
(* Vocabulary of the properties                                            *)
(***************************************************************************)
Elems(s) == {s[i] : i \in 1..Len(s)}

IsSortedAsc(s) == \A i \in 1..Len(s) : \A j \in i..Len(s) : FLe(s[i], s[j])

\* floor(P * N / 100)
PrefixLen(P, N) == (P * N) \div 100

\* The slice a call Statistics::from(vals, percentile) is to compute over.
Slice ==
    IF percentile = None THEN vals
    ELSE SubSeq(vals, 1, PrefixLen(percentile[1], Len(vals)))

Returned == pc = "Statistics::from" /\ stats # None

\* The arithmetic mean of two finite values, as a rational.
ArithMean(a, b) == Exact(a.n * b.d + b.n * a.d, 2 * a.d * b.d)

RECURSIVE SumOf(_)
\* The IEEE-754 accumulation of s from its first element to its last.
SumOf(s) ==
    IF s = <<>> THEN Zero
    ELSE FAdd(SumOf(SubSeq(s, 1, Len(s) - 1)), s[Len(s)])

RECURSIVE IntSum(_)
\* The integer sum of a series of integral values.
IntSum(s) == IF s = <<>> THEN 0 ELSE s[1].n + IntSum(Tail(s))

\* No partial sum of s leaves the finite range.
SumInRange(s) == \A i \in 1..Len(s) : Abs(IntSum(SubSeq(s, 1, i))) <= F64_MAX

RECURSIVE SumSqDev(_, _)
\* The accumulated squared deviations of the elements of s from m.
SumSqDev(s, m) ==
    IF s = <<>> THEN Zero
    ELSE FAdd(SumSqDev(SubSeq(s, 1, Len(s) - 1), m), FPowi2(FSub(s[Len(s)], m)))

\* The square of a value FSqrt returned.
SquareOf(x) == IF x.k = "sqrt" THEN Exact(x.n, x.d) ELSE FPowi2(x)

RECURSIVE InsertAsc(_, _)
InsertAsc(s, x) ==
    IF s = <<>> THEN <<x>>
    ELSE IF FLt(x, s[1]) THEN <<x>> \o s
    ELSE <<s[1]>> \o InsertAsc(Tail(s), x)

RECURSIVE SortAsc(_)
\* s sorted ascending.
SortAsc(s) == IF s = <<>> THEN <<>> ELSE InsertAsc(SortAsc(SubSeq(s, 1, Len(s) - 1)), s[Len(s)])

\* The requested percentiles whose slice of vals is not empty, in order.
RECURSIVE Kept(_, _)
Kept(ps, N) ==
    IF ps = <<>> THEN <<>>
    ELSE (IF PrefixLen(Head(ps), N) >= 1 THEN <<Head(ps)>> ELSE <<>>) \o Kept(Tail(ps), N)

(***************************************************************************)
(* Properties                                                              *)
(***************************************************************************)

\* C1: Statistics::from(vals, Some(P)) with P in [1,99] computes over exactly
\* the first floor(P*N/100) elements of vals: that length is at most N, the
\* slicing does not panic, the result is that of the prefix, and a present
\* result has count floor(P*N/100).
C1_PercentilePrefix ==
    (pc = "Statistics::from" /\ percentile # None /\ percentile[1] \in PercentileSpec) =>
        LET k == PrefixLen(percentile[1], Len(vals))
            prefix == SubSeq(vals, 1, k)
        IN  /\ k <= Len(vals)
            /\ ~panicked
            /\ (stats = None) <=> (Statistics_from(prefix, None) = None)
            /\ stats # None =>
                /\ stats[1].count = k
                /\ stats[1] = [Statistics_from(prefix, None)[1] EXCEPT !.percentile = percentile]

\* A percentile call that returned statistics of a proper prefix of two or
\* more elements.
C1_Witness ==
    /\ Returned
    /\ percentile # None
    /\ stats[1].count >= 2
    /\ stats[1].count < Len(vals)

C4_MedianOfSorted ==
    (Returned /\ IsSortedAsc(Slice)) =>
        LET f == Slice
            len == Len(f)
        IN  /\ len \div 2 + 1 \in 1..len
            /\ len % 2 = 1 => stats[1].median = f[len \div 2 + 1]
            /\ len % 2 = 0 =>
                /\ len \div 2 \in 1..len
                /\ stats[1].median = ArithMean(f[len \div 2], f[len \div 2 + 1])

\* C5: Statistics::from(V, None) of a non-empty V has count |V|, sum the
\* accumulated sum of all elements of V (the exact sum when no partial sum
\* leaves the finite range), and mean equal to sum / count.
C5_CountSumMean ==
    (pc = "Statistics::from" /\ percentile = None /\ vals # <<>>) =>
        /\ stats # None
        /\ stats[1].count = Len(vals)
        /\ stats[1].sum = SumOf(vals)
        /\ SumInRange(vals) => stats[1].sum = Exact(IntSum(vals), 1)
        /\ stats[1].mean = FDiv(stats[1].sum, AsF64(stats[1].count))
        /\ SumInRange(vals) => stats[1].mean = Exact(IntSum(vals), Len(vals))

\* Global statistics of three or more values, not all equal, with a finite sum.
C5_Witness ==
    /\ Returned
    /\ percentile = None
    /\ Len(vals) >= 3
    /\ Cardinality(Elems(vals)) >= 2
    /\ SumInRange(vals)
    /\ stats[1].mean.d # 1

\* C6: lower is the least and upper the greatest element of the slice: both
\* are elements of the slice and every element lies between them.
C6_LowerUpper ==
    Returned =>
        /\ stats[1].lower \in Elems(Slice)
        /\ stats[1].upper \in Elems(Slice)
        /\ \A x \in Elems(Slice) : FLe(stats[1].lower, x) /\ FLe(x, stats[1].upper)

\* Statistics of an unsorted slice whose least element is the value of the
\* scan's starting sentinel for upper and is neither first nor last.
C6_Witness ==
    /\ Returned
    /\ Len(Slice) >= 3
    /\ ~IsSortedAsc(Slice)
    /\ stats[1].lower = F64_MIN
    /\ Slice[1] # F64_MIN
    /\ Slice[Len(Slice)] # F64_MIN

\* C7: the Statistics of any series of at least one element satisfies
\* lower <= median <= upper.
C7_MedianBetweenLowerAndUpper ==
    Returned => FLe(stats[1].lower, stats[1].median) /\ FLe(stats[1].median, stats[1].upper)

C9_GlobalOverWholeSeries ==
    (pc = "with_percentiles" /\ vals # <<>>) =>
        /\ bundle # None
        /\ bundle[1].global.percentile = None
        /\ bundle[1].global.count = Len(vals)
        /\ bundle[1].global = new_statistics(vals, None)

\* A bundle for which percentiles were requested and every one was omitted.
C9_Witness ==
    /\ pc = "with_percentiles"
    /\ bundle # None
    /\ Len(percentiles) >= 1
    /\ bundle[1].percentiles = <<>>
    /\ Len(vals) >= 2

\* C10: the global statistics of StatisticsBundle::from(vals) are those of the
\* series sorted ascending, for every order of vals.
C10_FromIgnoresOrder ==
    (pc = "from" /\ bundle # None) =>
        bundle[1].global = new_statistics(SortAsc(vals), None)

\* Leading and trailing spaces and tabs removed.
RECURSIVE TrimStart(_)
TrimStart(s) ==
    IF s # <<>> /\ s[1] \in {" ", "\t"} THEN TrimStart(Tail(s)) ELSE s

RECURSIVE TrimEnd(_)
TrimEnd(s) ==
    IF s # <<>> /\ s[Len(s)] \in {" ", "\t"} THEN TrimEnd(SubSeq(s, 1, Len(s) - 1)) ELSE s

Trim(s) == TrimEnd(TrimStart(s))

\* How many times x occurs in s.
Occurrences(s, x) == Cardinality({i \in 1..Len(s) : s[i] = x})

SameMultiset(s, t) ==
    /\ Len(s) = Len(t)
    /\ \A i \in 1..Len(s) : Occurrences(s, s[i]) = Occurrences(t, s[i])

\* Each element is at most the one that follows it.
Ascending(s) == \A i \in 1..(Len(s) - 1) : FLe(s[i], s[i + 1])

\* The values of the lines of the input that parse, in line order.
RECURSIVE ParsedValues(_)
ParsedValues(lines) ==
    IF lines = <<>> THEN <<>>
    ELSE (IF parse_f64(Head(lines)) = None THEN <<>> ELSE <<parse_f64(Head(lines))[1]>>)
         \o ParsedValues(Tail(lines))

\* C12: for a readable input get_values returns exactly the values of the
\* lines that parse, one per line: in line order under Unsorted, and the same
\* multiset in ascending order under Sorted.
C12_GetValuesExactlyParsed ==
    pc = "get_values Ok" =>
        /\ SameMultiset(vals, ParsedValues(input))
        /\ sorting = "Unsorted" => vals = ParsedValues(input)
        /\ sorting = "Sorted" => Ascending(vals)

\* C13: leading and trailing whitespace of a line is removed before parsing:
\* the result is that of the input with every line trimmed.
C13_WhitespaceTrimmed ==
    pc = "get_values Ok" =>
        vals = get_values([i \in 1..Len(input) |-> Trim(input[i])], sorting)

\* C14: every value get_values returns is a finite number.
C14_ValuesFinite ==
    pc = "get_values Ok" => \A i \in 1..Len(vals) : vals[i].k = "fin"

\* C11: in every run of st, whatever the percentile option, the series the
\* bundle is built from is the whole ingested series sorted ascending.
C11_SortedBeforeBundle ==
    pc \in {"bundle", "done"} =>
        /\ SameMultiset(vals, ParsedValues(input))
        /\ Ascending(vals)

\* The tokens the value of -p was made of.
ArgTokens == CHOOSE t \in PercentTokenLists : Join(t, ",") = matches.percentiles[1]

\* tok denotes an integer of [1, 99].
IsPercentileToken(tok) ==
    LET digits == IF tok # <<>> /\ tok[1] = "+" THEN Tail(tok) ELSE tok
    IN  /\ digits # <<>>
        /\ \A i \in 1..Len(digits) : IsDigit(digits[i])
        /\ DecVal(digits) \in PercentileSpec

TokenValue(tok) == DecVal(IF tok[1] = "+" THEN Tail(tok) ELSE tok)

\* The values of the accepted tokens of toks, in order.
RECURSIVE AcceptedValues(_)
AcceptedValues(toks) ==
    IF toks = <<>> THEN <<>>
    ELSE (IF IsPercentileToken(Head(toks)) THEN <<TokenValue(Head(toks))>> ELSE <<>>)
         \o AcceptedValues(Tail(toks))

\* C17: validate_percents returns Ok (st goes on) exactly when every comma
\* separated token is an integer of [1,99]; parse_percents returns the
\* accepted tokens in order; every percentile st passes to with_percentiles
\* lies in [1,99].
C17_PercentilesValidated ==
    /\ (matches # None /\ matches.percentiles # None) =>
        LET toks == ArgTokens
        IN  /\ pc # "main" =>
                ((pc = "exit: invalid percentile") <=>
                    (\E i \in 1..Len(toks) : ~IsPercentileToken(toks[i])))
            /\ pc \in {"read", "values", "bundle", "done"} =>
                percentiles = [i \in 1..Len(toks) |-> TokenValue(toks[i])]
            /\ parse_percents(matches) = AcceptedValues(toks)
    /\ (matches # None /\ matches.percentiles = None /\ pc \in {"read", "values", "bundle", "done"}) =>
        percentiles = <<>>
    /\ pc \in {"bundle", "done"} =>
        /\ ~panicked
        /\ \A i \in 1..Len(percentiles) : percentiles[i] \in PercentileSpec

\* st built a bundle for two percentiles given in descending order, the
\* second written with a sign.
C17_Witness ==
    /\ pc = "bundle"
    /\ bundle # None
    /\ matches.percentiles = Some(<<"9", "9", ",", "+", "5">>)
    /\ percentiles = <<99, 5>>

\* The Statistics of the bundle in the order they are to be written.
BundleEntries == <<bundle[1].global>> \o bundle[1].percentiles

FieldNames ==
    << <<"c", "o", "u", "n", "t">>, <<"s", "u", "m">>, <<"m", "e", "a", "n">>,
       <<"u", "p", "p", "e", "r">>, <<"l", "o", "w", "e", "r">>,
       <<"m", "e", "d", "i", "a", "n">>, <<"s", "t", "d", "d", "e", "v">> >>

\* The f64 fields of a Statistics, by position in FieldNames.
FieldOf(st, f) ==
    CASE f = 2 -> st.sum
      [] f = 3 -> st.mean
      [] f = 4 -> st.upper
      [] f = 5 -> st.lower
      [] f = 6 -> st.median
      [] f = 7 -> st.stddev

\* The key of a field of st: the bare name for the global entry, the name,
\* "_" and the percentile number for a percentile entry.
KeyOf(st, f) ==
    IF st.percentile = None THEN FieldNames[f]
    ELSE LET P == st.percentile[1]
         IN  FieldNames[f] \o <<"_">>
             \o (IF P < 10 THEN <<>> ELSE <<DigitChars[(P \div 10) + 1]>>)
             \o <<DigitChars[(P % 10) + 1]>>

\* The joining string of a separator.
JoinString(separator) ==
    CASE separator.kind = "Tab" -> <<"\t">>
      [] separator.kind = "Colon" -> <<":", " ">>
      [] separator.kind = "Other" -> separator.s

\* C15: the output is 7 newline-terminated lines per Statistics of the
\* bundle, global entry first, then the percentile entries in bundle order,
\* each group in the order count, sum, mean, upper, lower, median, stddev;
\* a line is key, separator string, value, with the key the bare field name
\* or the field name, "_" and the percentile; the separator decides the
\* joining string only.
C15_OutputStructure ==
    pc = "formatted" =>
        /\ Len(output) = 7 * Len(BundleEntries)
        /\ \A j \in 1..Len(BundleEntries) : \A f \in 1..7 :
            LET line == output[7 * (j - 1) + f]
                st == BundleEntries[j]
            IN  /\ line.newline
                /\ line.key = KeyOf(st, f)
                /\ line.sep = JoinString(sep[1])
                /\ IF f = 1 THEN line.value.int = ToDigits(st.count) /\ ~line.value.neg
                   ELSE line.value = fmt_f64(FieldOf(st, f), DISPLAY_PRECISION)

\* A bundle with two percentile entries of different percentiles, a different
\* upper and lower in the global entry, written with a separator of its own.
C15_Witness ==
    /\ pc = "formatted"
    /\ sep = Some([kind |-> "Other", s |-> <<" ", "=", ">", " ">>])
    /\ Len(bundle[1].percentiles) = 2
    /\ bundle[1].percentiles[1].percentile # bundle[1].percentiles[2].percentile
    /\ bundle[1].global.upper # bundle[1].global.lower
    /\ Len(output) = 21

\* C16: every value of the output, count included, is written with exactly
\* 5 digits after the decimal point.
C16_FiveFractionalDigits ==
    pc = "formatted" =>
        \A i \in 1..Len(output) :
            /\ output[i].value.kind = "decimal"
            /\ Len(output[i].value.frac) = 5

\* C18: in a bundle built from a series sorted ascending and percentiles of
\* [1,99], every percentile entry has 1 <= count < the global count, the
\* global lower and an upper <= the global upper; and of two entries the one
\* with the smaller percentile has the smaller or equal count and upper.
C18_PercentileBoundedByGlobal ==
    (/\ pc = "with_percentiles"
     /\ IsSortedAsc(vals)
     /\ \A i \in 1..Len(percentiles) : percentiles[i] \in PercentileSpec
     /\ bundle # None) =>
        LET g == bundle[1].global
            ps == bundle[1].percentiles
        IN  /\ \A i \in 1..Len(ps) :
                /\ 1 <= ps[i].count
                /\ ps[i].count < g.count
                /\ ps[i].lower = g.lower
                /\ FLe(ps[i].upper, g.upper)
            /\ \A i, j \in 1..Len(ps) :
                ps[i].percentile[1] <= ps[j].percentile[1] =>
                    /\ ps[i].count <= ps[j].count
                    /\ FLe(ps[i].upper, ps[j].upper)

\* A bundle of a sorted series with two percentile entries of different
\* counts and uppers, the larger percentile first, both below the global upper.
C18_Witness ==
    /\ pc = "with_percentiles"
    /\ IsSortedAsc(vals)
    /\ bundle # None
    /\ Len(bundle[1].percentiles) = 2
    /\ bundle[1].percentiles[1].count > bundle[1].percentiles[2].count
    /\ FLt(bundle[1].percentiles[2].upper, bundle[1].percentiles[1].upper)
    /\ FLt(bundle[1].percentiles[1].upper, bundle[1].global.upper)

====
